---------------------------- MODULE Spec2Model ----------------------------
(***************************************************************************)
(* The chart scripts of cppcon2025: generate_charts.py,                    *)
(* images/barsimdjson.py, images/generate_perf_charts.py and               *)
(* images/generate_bonus_charts.py.                                        *)
(*                                                                         *)
(* A run of a script is a process that executes the script's statements    *)
(* in order.  Runs share only the file system.  Numbers are fixed point,   *)
(* in hundredths (13.64 is 1364), so that the offsets 0.2 and 0.5 and the  *)
(* '.2g' format are exact.                                                 *)
(***************************************************************************)
EXTENDS Integers, Sequences, FiniteSets, TLC

\* ----------------------------------------------------------------- bounds
\* Number of script runs that may be started (concurrently or in sequence).
MaxRuns == 2

Runs == 1..MaxRuns

\* ------------------------------------------------------------ fixed point
N(i) == i * 100
D(i, f) == i * 100 + f
Nums(s) == [k \in DOMAIN s |-> N(s[k])]

Min2(a, b) == IF a < b THEN a ELSE b

RECURSIVE SumTo(_, _)
SumTo(s, n) == IF n = 0 THEN 0 ELSE s[n] + SumTo(s, n - 1)

\* Python's sequence indexing: 0-based, negative indices count from the end.
PyIndex(s, i) == IF i < 0 THEN Len(s) + 1 + i ELSE i + 1

\* ------------------------------------------------------------- formatting
\* f'{speed}', f'{yval}', f'{width}': the number itself.
FmtRaw(v) == v

\* f'{int(yval)}': truncation to an integer.
FmtInt(v) == (v \div 100) * 100

\* Rounding of v to a multiple of u, ties to even.
RoundTo(v, u) ==
    LET q == v \div u
        r == v % u
    IN  IF 2 * r > u \/ (2 * r = u /\ q % 2 = 1) THEN (q + 1) * u ELSE q * u

\* f'{yval:.2g}': two significant digits (for 0.10 <= yval < 100).
Fmt2g(v) == IF v >= 1000 THEN RoundTo(v, 100)
            ELSE IF v >= 100 THEN RoundTo(v, 10)
            ELSE v

Fmt(kind, v) == CASE kind = "int" -> FmtInt(v)
                  [] kind = "2g"  -> Fmt2g(v)
                  [] OTHER        -> FmtRaw(v)

\* autopct='%1.0f%%': the slice's share of the total, in whole percent.
Percent(v, total) == N((200 * v + total) \div (2 * total))

\* ------------------------------------------------------------------ paths
ImagesDir == "/Users/random_person/Desktop/simdjson_talks/cppcon2025/images"
TalkDir == "/Users/random_person/Desktop/simdjson_talks/cppcon2025"

\* The working directories a script is started from.
Dirs == {ImagesDir, TalkDir}

AbsPath(dir, name) == [abs |-> TRUE, dir |-> dir, name |-> name]
RelPath(name) == [abs |-> FALSE, dir |-> "", name |-> name]

\* open(): a relative path is resolved against the working directory.
Resolve(cwd, p) == [dir |-> IF p.abs THEN p.dir ELSE cwd, name |-> p.name]

\* ----------------------------------------------- generate_charts.py data
libraries == <<"nlohmann::json", "RapidJSON", "Serde (Rust)", "yyjson">>
speeds == Nums(<<242, 497, 1343, 2074>>)
gc_colors == <<"#2E86AB", "#A23B72", "#F18F01", "#C73E1D">>

libraries_with_simdjson ==
    <<"nlohmann::json", "RapidJSON", "Serde (Rust)", "yyjson", "simdjson">>
speeds_with_simdjson == Nums(<<242, 497, 1343, 2074, 3435>>)
colors_with_simdjson == <<"#2E86AB", "#A23B72", "#F18F01", "#C73E1D", "#00A878">>

libraries_sorted ==
    <<"simdjson", "yyjson", "Serde (Rust)", "RapidJSON", "nlohmann::json">>
\* The speeds in the order of the reveal chart instead of sorted.
speeds_unsorted == Nums(<<242, 497, 1343, 2074, 3435>>)

speeds_sorted == Nums(<<3435, 2074, 1343, 497, 242>>)
colors_sorted == <<"#00A878", "#C73E1D", "#F18F01", "#A23B72", "#2E86AB">>

NoLang == << >>

\* A chart with one bar call: the arguments of the call, the labelling loop
\* (loop "zip": for bar, speed, lib in zip(bars, values, labels); loop
\* "bars": for i, bar in enumerate(bars)), the highlighted bar and the
\* value-axis limit (0: none set).
gc_chart1 ==
    [kind |-> "simple", orient |-> "h", title |-> "Current JSON Serialization Landscape",
     labels |-> libraries, values |-> speeds, colors |-> gc_colors,
     barw |-> D(0, 60), edge |-> "none", lw |-> 1, assignsWidth |-> FALSE,
     loop |-> "zip", fmt |-> "raw", offset |-> N(50), suffix |-> " MB/s",
     star |-> "", starSuffix |-> "",
     lang |-> NoLang, langOffset |-> 0,
     hasHl |-> FALSE, hl |-> 0, hlEdge |-> "",
     lim |-> N(2500)]

gc_chart2 ==
    [kind |-> "simple", orient |-> "h", title |-> "JSON Serialization Performance Comparison",
     labels |-> libraries_with_simdjson, values |-> speeds_with_simdjson,
     colors |-> colors_with_simdjson,
     barw |-> D(0, 60), edge |-> "none", lw |-> 1, assignsWidth |-> FALSE,
     loop |-> "zip", fmt |-> "raw", offset |-> N(50), suffix |-> " MB/s",
     star |-> "simdjson", starSuffix |-> " MB/s [star]",
     lang |-> NoLang, langOffset |-> 0,
     hasHl |-> TRUE, hl |-> -1, hlEdge |-> "gold",
     lim |-> N(4000)]

gc_chart3 ==
    [kind |-> "simple", orient |-> "h",
     title |-> "Twitter Dataset (631KB) - Serialization Performance",
     labels |-> libraries_sorted, values |-> speeds_sorted, colors |-> colors_sorted,
     barw |-> D(0, 60), edge |-> "none", lw |-> 1, assignsWidth |-> FALSE,
     loop |-> "zip", fmt |-> "raw", offset |-> N(50), suffix |-> " MB/s",
     star |-> "simdjson", starSuffix |-> " MB/s [star]",
     lang |-> NoLang, langOffset |-> 0,
     hasHl |-> TRUE, hl |-> 0, hlEdge |-> "gold",
     lim |-> N(4000)]

gc_path1 == AbsPath(ImagesDir, "perf_landscape.png")
gc_path2 == AbsPath(ImagesDir, "perf_with_simdjson.png")
gc_path3 == AbsPath(ImagesDir, "perf_comparison.png")

gc_rc == [style |-> "default", fontsize |-> 12, weight |-> "bold"]

generate_charts ==
    << [op |-> "rc", rc |-> gc_rc],
       [op |-> "figure"], [op |-> "panel", spec |-> gc_chart1],
       [op |-> "savefig", path |-> gc_path1, dpi |-> 150], [op |-> "close"],
       [op |-> "figure"], [op |-> "panel", spec |-> gc_chart2],
       [op |-> "savefig", path |-> gc_path2, dpi |-> 150], [op |-> "close"],
       [op |-> "figure"], [op |-> "panel", spec |-> gc_chart3],
       [op |-> "savefig", path |-> gc_path3, dpi |-> 150], [op |-> "close"],
       [op |-> "print"] >>

\* ------------------------------------------------ images/barsimdjson.py
processors == <<"AMD Ryzen 9 9950X3D", "Intel Core Ultra 9 285K",
                "Snapdragon X Elite X1E78100", "ARMv8 Neoverse-V2 72-Core">>
gb_per_second == <<D(13, 64), D(10, 7), D(4, 27), D(4, 6)>>
bs_colors == <<"#FF6F61", "#0655F1", "#2ECC71", "#2ECC71">>

bs_chart ==
    [kind |-> "simple", orient |-> "v", title |-> "",
     labels |-> processors, values |-> gb_per_second, colors |-> bs_colors,
     barw |-> D(0, 80), edge |-> "black", lw |-> 1, assignsWidth |-> FALSE,
     loop |-> "bars", fmt |-> "2g", offset |-> D(0, 20), suffix |-> " GB/s",
     star |-> "", starSuffix |-> "",
     lang |-> NoLang, langOffset |-> 0,
     hasHl |-> FALSE, hl |-> 0, hlEdge |-> "",
     lim |-> 0]

\* barsimdjson.py writing under the name of a chart of generate_charts.py.
bs_path_taken == RelPath("perf_comparison.png")

bs_path == RelPath("simdjson_benchmark.png")

barsimdjson ==
    << [op |-> "figure"], [op |-> "panel", spec |-> bs_chart],
       [op |-> "savefig", path |-> bs_path, dpi |-> 300], [op |-> "close"] >>

\* ------------------------------------------ images/generate_perf_charts.py
libraries_landscape == <<"nlohmann::json", "RapidJSON", "Serde (Rust)", "yyjson">>
speeds_landscape == Nums(<<174, 529, 1710, 1909>>)
colors_landscape == <<"#8B8680", "#6495ED", "#FF6F61", "#2ECC71">>
lang_labels_landscape == <<"C++", "C++", "Rust", "C">>

libraries_with == <<"nlohmann::json", "RapidJSON", "Serde (Rust)", "yyjson", "simdjson">>
speeds_with == Nums(<<174, 529, 1710, 1909, 3598>>)
colors_with == <<"#8B8680", "#6495ED", "#FF6F61", "#2ECC71", "#FFD700">>

\* lang_labels without the entry of the fifth bar.
lang_labels_short == <<"C++", "C++", "Rust", "C">>

lang_labels == <<"C++", "C++", "Rust", "C", "C++">>
speeds_parsing == Nums(<<172, 658, 1720, 2637, 4170>>)

perf_chart1 ==
    [kind |-> "simple", orient |-> "v", title |-> "Current JSON Serialization Landscape",
     labels |-> libraries_landscape, values |-> speeds_landscape,
     colors |-> colors_landscape,
     barw |-> D(0, 80), edge |-> "black", lw |-> 1, assignsWidth |-> FALSE,
     loop |-> "bars", fmt |-> "int", offset |-> N(50), suffix |-> " MB/s",
     star |-> "", starSuffix |-> "",
     lang |-> lang_labels_landscape, langOffset |-> N(150),
     hasHl |-> FALSE, hl |-> 0, hlEdge |-> "",
     lim |-> N(2500)]

perf_chart2 ==
    [kind |-> "simple", orient |-> "v", title |-> "JSON Serialization Performance",
     labels |-> libraries_with, values |-> speeds_with, colors |-> colors_with,
     barw |-> D(0, 80), edge |-> "black", lw |-> 1, assignsWidth |-> FALSE,
     loop |-> "bars", fmt |-> "raw", offset |-> N(50), suffix |-> " MB/s",
     star |-> "simdjson", starSuffix |-> " MB/s ",
     lang |-> lang_labels, langOffset |-> N(180),
     hasHl |-> TRUE, hl |-> -1, hlEdge |-> "#FF0000",
     lim |-> N(4000)]

perf_chart2b ==
    [kind |-> "simple", orient |-> "v", title |-> "JSON Parsing Performance",
     labels |-> libraries_with, values |-> speeds_parsing, colors |-> colors_with,
     barw |-> D(0, 80), edge |-> "black", lw |-> 1, assignsWidth |-> FALSE,
     loop |-> "bars", fmt |-> "raw", offset |-> N(50), suffix |-> " MB/s",
     star |-> "simdjson", starSuffix |-> " MB/s ",
     lang |-> lang_labels, langOffset |-> N(180),
     hasHl |-> TRUE, hl |-> -1, hlEdge |-> "#FF0000",
     lim |-> N(4500)]

perf_path1 == RelPath("perf_landscape.png")
perf_path2 == RelPath("perf_with_simdjson.png")
perf_path2b == RelPath("perf_with_simdjson_parsing.png")

perf_rc == [style |-> "", fontsize |-> 16, weight |-> ""]

generate_perf_charts ==
    << [op |-> "rc", rc |-> perf_rc],
       [op |-> "figure"], [op |-> "panel", spec |-> perf_chart1],
       [op |-> "savefig", path |-> perf_path1, dpi |-> 300], [op |-> "close"],
       [op |-> "figure"], [op |-> "panel", spec |-> perf_chart2],
       [op |-> "savefig", path |-> perf_path2, dpi |-> 300], [op |-> "close"],
       [op |-> "figure"], [op |-> "panel", spec |-> perf_chart2b],
       [op |-> "savefig", path |-> perf_path2b, dpi |-> 300], [op |-> "close"],
       [op |-> "print"] >>

\* ------------------------------------- images/generate_bonus_charts.py
field_approaches == <<"Manual:\nByte-by-byte", "Reflection:\n64-bit constants">>
field_instructions == Nums(<<200, 8>>)
field_colors == <<"#FF6B6B", "#4ECDC4">>

bonus_chart1 ==
    [kind |-> "simple", orient |-> "v", title |-> "Field Name Operations (25x faster!)",
     labels |-> field_approaches, values |-> field_instructions,
     colors |-> field_colors,
     barw |-> D(0, 80), edge |-> "black", lw |-> 2, assignsWidth |-> FALSE,
     loop |-> "bars", fmt |-> "int", offset |-> N(5), suffix |-> " instructions",
     star |-> "", starSuffix |-> "",
     lang |-> NoLang, langOffset |-> 0,
     hasHl |-> FALSE, hl |-> 0, hlEdge |-> "",
     lim |-> N(250)]

\* branch_data['Manual'] and branch_data['Reflection'].
branch_data_Manual == [total |-> N(311), types |-> Nums(<<156, 78, 45, 32>>)]
branch_data_Reflection == [total |-> N(20), types |-> Nums(<<10, 5, 3, 2>>)]
branch_colors == <<"#FF4444", "#FF6666", "#FF8888", "#FFAAAA">>
branch_labels == <<"je (equal)", "jne (not equal)", "jb (below)", "ja (above)">>

\* set_xticklabels(['Manual\n(311 total)', 'Reflection\n(20 total)']): each
\* tick label with the number its text shows.
branch_xticklabels ==
    << [text |-> "Manual\n(311 total)", shown |-> N(311)],
       [text |-> "Reflection\n(20 total)", shown |-> N(20)] >>

\* The x positions of the two columns, ax2.bar(0, ...) and ax2.bar(1, ...),
\* in half units.
ManualColumn == 0
ReflectionColumn == 2 * N(1)

branch_width == D(0, 35)

\* A limit below the height of the Manual column.
branch_lim_low == N(300)

branch_lim == N(350)

total_categories == <<"Manual", "Reflection">>
total_values == Nums(<<1635, 648>>)
total_colors == <<"#FF6B6B", "#4ECDC4">>

bonus_chart3 ==
    [kind |-> "simple", orient |-> "v", title |-> "Overall Instruction Count (2.5x fewer!)",
     labels |-> total_categories, values |-> total_values, colors |-> total_colors,
     barw |-> D(0, 80), edge |-> "black", lw |-> 2, assignsWidth |-> FALSE,
     loop |-> "bars", fmt |-> "int", offset |-> N(20), suffix |-> "\ninstructions",
     star |-> "", starSuffix |-> "",
     lang |-> NoLang, langOffset |-> 0,
     hasHl |-> FALSE, hl |-> 0, hlEdge |-> "",
     lim |-> N(1800)]

mem_categories == <<"String\nConcatenation", "Escape\nProcessing", "Memory\nAllocation">>
manual_mem == Nums(<<400, 600, 235>>)
reflection_mem == Nums(<<50, 0, 20>>)

\* A chart with two bar calls side by side (x - width/2 and x + width/2),
\* one scalar colour per call, and a labelling loop guarded by height > 0.
bonus_chart4 ==
    [kind |-> "grouped", title |-> "Memory & String Operations",
     cats |-> mem_categories, width |-> D(0, 35),
     series |-> << [name |-> "Manual", values |-> manual_mem, color |-> "#FF6B6B"],
                   [name |-> "Reflection", values |-> reflection_mem,
                    color |-> "#4ECDC4"] >>,
     edge |-> "black", lw |-> 1, assignsWidth |-> TRUE,
     fmt |-> "int", offset |-> N(10), suffix |-> "",
     lim |-> N(700)]

dev_metrics == <<"Lines of\nC++ Code", "Escape\nLogic\nRequired">>
manual_scores == Nums(<<70, 100>>)
reflection_scores == Nums(<<1, 0>>)

bonus_chart5 ==
    [kind |-> "grouped", title |-> "Developer Experience",
     cats |-> dev_metrics, width |-> D(0, 35),
     series |-> << [name |-> "Manual", values |-> manual_scores, color |-> "#FF6B6B"],
                   [name |-> "Reflection", values |-> reflection_scores,
                    color |-> "#4ECDC4"] >>,
     edge |-> "black", lw |-> 1, assignsWidth |-> TRUE,
     fmt |-> "int", offset |-> N(2), suffix |-> "",
     lim |-> N(120)]

perf_metrics == <<"Total\nInstructions", "Branch\nPredictions", "Cache\nEfficiency",
                  "Developer\nProductivity">>
improvements == <<D(2, 50), N(15), N(10), N(43)>>
colors6 == <<"#FFD700", "#FFA500", "#FF8C00", "#FF4500">>

\* The labelling loop of this chart assigns each bar's width to 'width'.
bonus_chart6 ==
    [kind |-> "simple", orient |-> "h", title |-> "Overall Performance Gains",
     labels |-> perf_metrics, values |-> improvements, colors |-> colors6,
     barw |-> D(0, 80), edge |-> "black", lw |-> 2, assignsWidth |-> TRUE,
     loop |-> "bars", fmt |-> "raw", offset |-> D(0, 50), suffix |-> "x better",
     star |-> "", starSuffix |-> "",
     lang |-> NoLang, langOffset |-> 0,
     hasHl |-> FALSE, hl |-> 0, hlEdge |-> "",
     lim |-> N(50)]

pie_labels == <<"Manual\n1,635 instr", "Reflection\n648 instr">>
\* The numbers the two label texts name.
pie_labels_named == Nums(<<1635, 648>>)
sizes == Nums(<<1635, 648>>)
pie_colors == <<"#FF6B6B", "#4ECDC4">>

bonus_pie ==
    [kind |-> "pie", title |-> "Instruction Count Distribution\n(2.5x improvement)",
     labels |-> pie_labels, named |-> pie_labels_named,
     values |-> sizes, colors |-> pie_colors,
     radius |-> N(1), labeldistance |-> D(1, 10), pctdistance |-> D(0, 60),
     edge |-> "black", lw |-> 2, assignsWidth |-> FALSE]

benefits ==
    << [text |-> "2.5x fewer instructions", color |-> "#4ECDC4"],
       [text |-> "15x fewer branches", color |-> "#95E77E"],
       [text |-> "25x faster field names", color |-> "#FFD700"],
       [text |-> "Zero escape loops", color |-> "#FFA500"],
       [text |-> "43x less code to write", color |-> "#FF4500"] >>

bonus_benefits ==
    [kind |-> "benefits", title |-> "Key Performance Benefits", items |-> benefits,
     y_pos |-> D(0, 80), step |-> D(0, 15), assignsWidth |-> FALSE]

bonus_path1 == RelPath("bonus_instruction_analysis.png")
bonus_path2 == RelPath("bonus_summary.png")

bonus_rc == [style |-> "seaborn-v0_8-darkgrid", fontsize |-> 0, weight |-> ""]

generate_bonus_charts ==
    << [op |-> "rc", rc |-> bonus_rc],
       [op |-> "figure"],
       [op |-> "panel", spec |-> bonus_chart1],
       [op |-> "stack_begin"], [op |-> "stack_iter"], [op |-> "stack_end"],
       [op |-> "panel", spec |-> bonus_chart3],
       [op |-> "panel", spec |-> bonus_chart4],
       [op |-> "panel", spec |-> bonus_chart5],
       [op |-> "panel", spec |-> bonus_chart6],
       [op |-> "savefig", path |-> bonus_path1, dpi |-> 300], [op |-> "close"],
       [op |-> "figure"],
       [op |-> "panel", spec |-> bonus_pie],
       [op |-> "panel", spec |-> bonus_benefits],
       [op |-> "savefig", path |-> bonus_path2, dpi |-> 300], [op |-> "close"],
       [op |-> "print"] >>

\* --------------------------------------------------------------- scripts
Scripts == {"generate_charts", "barsimdjson", "generate_perf_charts",
            "generate_bonus_charts"}

Program(s) == CASE s = "generate_charts" -> generate_charts
                [] s = "barsimdjson" -> barsimdjson
                [] s = "generate_perf_charts" -> generate_perf_charts
                [] OTHER -> generate_bonus_charts

\* The savefig statements of a script among its first n statements.
RECURSIVE SavesUpTo(_, _)
SavesUpTo(prog, n) ==
    IF n = 0 THEN 0
    ELSE SavesUpTo(prog, n - 1) + (IF prog[n].op = "savefig" THEN 1 ELSE 0)

NCharts(s) == SavesUpTo(Program(s), Len(Program(s)))

\* ------------------------------------------------------- drawing a chart
\* color=: a list of colours is cycled over the bars.
ColorAt(colors, k) == colors[((k - 1) % Len(colors)) + 1]

\* ax.bar / ax.barh / plt.bar with categorical x: one bar per entry, bar k
\* at position k-1, in the order of the arguments.  extent is where the bar
\* ends on the value axis (bottom + value).
BarCall(spec) ==
    [k \in 1..Len(spec.values) |->
        [label |-> spec.labels[k], value |-> spec.values[k], bottom |-> 0,
         extent |-> spec.values[k],
         color |-> ColorAt(spec.colors, k), edge |-> spec.edge, lw |-> spec.lw,
         x2 |-> 2 * N(k - 1), w |-> spec.barw, call |-> 1]]

\* Highlighting that ignores the index and takes the last bar.
HighlightLast(bars, i, c) ==
    [bars EXCEPT ![Len(bars)] = [@ EXCEPT !.edge = c, !.lw = 3]]

\* bars[i].set_edgecolor(c); bars[i].set_linewidth(3)
Highlight(bars, i, c) ==
    [bars EXCEPT ![PyIndex(bars, i)] = [@ EXCEPT !.edge = c, !.lw = 3]]

\* Number of iterations of the labelling loop: zip stops at its shortest
\* argument, a loop over bars visits every bar.
LoopLen(spec, bars) ==
    IF spec.loop = "zip"
    THEN IF spec.star = ""
         THEN Min2(Len(bars), Len(spec.values))
         ELSE Min2(Len(bars), Min2(Len(spec.values), Len(spec.labels)))
    ELSE Len(bars)

\* A value label anchored at the end of the bar, without the offset.
ValueTextAtEnd(spec, bars, k) ==
    [bar |-> k, kind |-> "value", anchor |-> bars[k].value,
     num |-> Fmt(spec.fmt, bars[k].value), str |-> spec.suffix,
     starred |-> spec.star # "" /\ spec.labels[k] = spec.star]

\* The value label of bar k: its number is the zipped value (loop "zip") or
\* the bar's own extent (loop "bars"), its anchor the bar's extent plus the
\* offset, its text the starred one when the entry is the starred library.
ValueText(spec, bars, k) ==
    LET starred == spec.star # "" /\ spec.labels[k] = spec.star
    IN  [bar |-> k, kind |-> "value",
         anchor |-> bars[k].value + spec.offset,
         num |-> IF spec.loop = "zip" THEN Fmt(spec.fmt, spec.values[k])
                 ELSE Fmt(spec.fmt, bars[k].value),
         str |-> IF starred THEN spec.starSuffix ELSE spec.suffix,
         starred |-> starred]

\* The language label of bar k (generate_perf_charts.py).
LangText(spec, bars, k) ==
    [bar |-> k, kind |-> "lang",
     anchor |-> bars[k].value + spec.langOffset,
     num |-> 0, str |-> spec.lang[k], starred |-> FALSE]

\* The texts of the labelling loop, in the order they are added.
LabelLoop(spec, bars) ==
    LET n == LoopLen(spec, bars)
    IN  IF spec.lang = NoLang
        THEN [j \in 1..n |-> ValueText(spec, bars, j)]
        ELSE [j \in 1..(2 * n) |->
                IF j % 2 = 1 THEN ValueText(spec, bars, (j + 1) \div 2)
                ELSE LangText(spec, bars, j \div 2)]

\* The exception a single-series chart raises, "" if none: bar() cannot
\* broadcast x against height of another length; lang_labels[i] and
\* libraries_with[i] need an entry per bar.
SimpleRaises(spec) ==
    IF Len(spec.labels) # Len(spec.values) THEN "ValueError"
    ELSE IF spec.loop = "bars"
            /\ \/ spec.lang # NoLang /\ Len(spec.lang) < Len(spec.values)
               \/ spec.star # "" /\ Len(spec.labels) < Len(spec.values)
         THEN "IndexError"
         ELSE ""

\* What was passed to a bar call: x, height and color (scalar: one colour
\* for all bars), and the length of the shortest array that the labelling
\* loop indexes by bar position.
CallArgs(x, height, colors, scalar, nidx) ==
    [x |-> x, height |-> height, colors |-> colors, scalar |-> scalar,
     nindexed |-> nidx]

SimpleAxes(spec) ==
    LET bars == BarCall(spec)
        texts == LabelLoop(spec, bars)
    IN  [kind |-> "simple", title |-> spec.title,
         calls |-> << CallArgs(spec.labels, spec.values, spec.colors, FALSE,
                               IF spec.lang = NoLang THEN Len(spec.labels)
                               ELSE Min2(Len(spec.labels), Len(spec.lang))) >>,
         bars |-> IF spec.hasHl THEN Highlight(bars, spec.hl, spec.hlEdge) ELSE bars,
         texts |-> texts, lim |-> spec.lim, ticks |-> << >>]

\* bars4_1 = ax4.bar(x - width/2, manual_mem, width, ...) and
\* bars4_2 = ax4.bar(x + width/2, reflection_mem, width, ...), x = arange(n).
GroupedCall(spec, j) ==
    LET ser == spec.series[j]
    IN  [k \in 1..Len(ser.values) |->
            [label |-> ser.name, value |-> ser.values[k], bottom |-> 0,
             extent |-> ser.values[k], color |-> ser.color, edge |-> spec.edge, lw |-> spec.lw,
             x2 |-> 2 * N(k - 1) + (IF j = 1 THEN -spec.width ELSE spec.width),
             w |-> spec.width, call |-> j]]

GroupedBars(spec) == GroupedCall(spec, 1) \o GroupedCall(spec, 2)

\* for bars in [bars4_1, bars4_2]: for bar in bars: if height > 0: ax.text
RECURSIVE GuardedLoop(_, _, _)
GuardedLoop(spec, bars, k) ==
    IF k = 0 THEN << >>
    ELSE LET rest == GuardedLoop(spec, bars, k - 1)
         IN  IF bars[k].value > 0
             THEN Append(rest, [bar |-> k, kind |-> "value",
                                anchor |-> bars[k].value + spec.offset,
                                num |-> Fmt(spec.fmt, bars[k].value),
                                str |-> spec.suffix, starred |-> FALSE])
             ELSE rest

GroupedRaises(spec) ==
    IF \E j \in 1..2 : Len(spec.series[j].values) # Len(spec.cats)
    THEN "ValueError" ELSE ""

GroupedAxes(spec) ==
    LET bars == GroupedBars(spec)
    IN  [kind |-> "grouped", title |-> spec.title,
         calls |-> [j \in 1..2 |->
                     CallArgs([k \in 1..Len(spec.cats) |->
                                 2 * N(k - 1) + (IF j = 1 THEN -spec.width
                                                 ELSE spec.width)],
                              spec.series[j].values, <<spec.series[j].color>>, TRUE,
                              Len(spec.cats))],
         bars |-> bars, texts |-> GuardedLoop(spec, bars, Len(bars)),
         lim |-> spec.lim,
         ticks |-> [k \in 1..Len(spec.cats) |-> [text |-> spec.cats[k], shown |-> 0]]]

\* ax1.pie(sizes, labels=labels, colors=colors, autopct='%1.0f%%', ...): one
\* wedge per entry (extent: its radius), each with its label outside the
\* wedge (labeldistance) and its share in percent inside (pctdistance); then
\* every wedge gets a black edge of width 2.
PieAxes(spec) ==
    LET total == SumTo(spec.values, Len(spec.values))
    IN  [kind |-> "pie", title |-> spec.title,
         calls |-> << CallArgs(spec.labels, spec.values, spec.colors, FALSE,
                               Len(spec.labels)) >>,
         bars |-> [k \in 1..Len(spec.values) |->
                     [label |-> spec.labels[k], value |-> spec.values[k], bottom |-> 0,
                      extent |-> spec.radius,
                      color |-> ColorAt(spec.colors, k), edge |-> spec.edge,
                      lw |-> spec.lw, x2 |-> 0, w |-> 0, call |-> 1]],
         texts |-> [j \in 1..(2 * Len(spec.values)) |->
                     IF j % 2 = 1
                     THEN [bar |-> (j + 1) \div 2, kind |-> "value",
                           anchor |-> spec.labeldistance,
                           num |-> spec.named[(j + 1) \div 2],
                           str |-> spec.labels[(j + 1) \div 2], starred |-> FALSE]
                     ELSE [bar |-> j \div 2, kind |-> "pct",
                           anchor |-> spec.pctdistance,
                           num |-> Percent(spec.values[j \div 2], total), str |-> "%",
                           starred |-> FALSE]],
         lim |-> 0, ticks |-> << >>]

\* for benefit, color in benefits: ax2.text(0.1, y_pos, ...); y_pos -= 0.15
BenefitsAxes(spec) ==
    [kind |-> "benefits", title |-> spec.title, calls |-> << >>, bars |-> << >>,
     texts |-> [k \in 1..Len(spec.items) |->
                 [bar |-> 0, kind |-> "note",
                  anchor |-> spec.y_pos - (k - 1) * spec.step,
                  num |-> 0, str |-> spec.items[k].text, starred |-> FALSE]],
     lim |-> 0, ticks |-> << >>]

DrawAxes(spec) == CASE spec.kind = "simple" -> SimpleAxes(spec)
                    [] spec.kind = "grouped" -> GroupedAxes(spec)
                    [] spec.kind = "pie" -> PieAxes(spec)
                    [] OTHER -> BenefitsAxes(spec)

PanelRaises(spec) == CASE spec.kind = "simple" -> SimpleRaises(spec)
                       [] spec.kind = "grouped" -> GroupedRaises(spec)
                       [] OTHER -> ""

\* The value 'width' holds after the chart's statements.
WidthAfter(spec, width) ==
    IF ~spec.assignsWidth THEN width
    ELSE IF spec.kind = "grouped" THEN spec.width
    ELSE IF Len(spec.values) = 0 THEN width
    ELSE spec.values[Len(spec.values)]

\* ------------------------------------------------------------------ state
VARIABLES
    runs,    \* runs[r]: the process of run r (its interpreter state)
    fs,      \* the file system: resolved path -> contents of the file
    saved    \* history: every completed savefig, with the file it left

vars == <<runs, fs, saved>>

\* rcParams of a fresh interpreter.
DefaultRc == [style |-> "default", fontsize |-> 10, weight |-> "normal"]

NoFigure == [open |-> FALSE, rc |-> DefaultRc, axes |-> << >>]

\* A run that has not been started.
Idle ==
    [status |-> "idle", script |-> "", cwd |-> "", pc |-> 0, rc |-> DefaultRc,
     fig |-> NoFigure, nopen |-> 0, width |-> 0, i |-> 0,
     bottom_manual |-> 0, bottom_reflection |-> 0,
     attempts |-> << >>, written |-> << >>, printed |-> FALSE,
     exit |-> -1, err |-> ""]

\* python3 script.py in directory d: a new interpreter at the first statement.
NewProcess(s, d) == [Idle EXCEPT !.status = "running", !.script = s, !.cwd = d, !.pc = 1]

Init ==
    /\ runs = [r \in Runs |-> Idle]
    /\ fs = << >>
    /\ saved = {}

Running(r) == runs[r].status = "running"
Stmt(r) == Program(runs[r].script)[runs[r].pc]
AtOp(r, op) == Running(r) /\ Stmt(r).op = op

\* The statement is done: go to the next one; after the last statement the
\* interpreter exits with code 0.
Advance(run) ==
    IF run.pc + 1 > Len(Program(run.script))
    THEN [run EXCEPT !.pc = run.pc + 1, !.status = "done", !.exit = 0]
    ELSE [run EXCEPT !.pc = run.pc + 1]

\* An exception that is swallowed: the run goes on with the next statement.
RaiseSwallowed(run, e) == Advance([run EXCEPT !.err = e])

\* An exception no statement catches: the interpreter prints the traceback
\* and exits with code 1; no later statement runs.
Raise(run, e) == [run EXCEPT !.status = "failed", !.exit = 1, !.err = e]

\* plt.rcParams[...] = v, plt.rcParams.update, plt.style.use: the keys given.
ApplyRc(rc, upd) ==
    [style |-> IF upd.style = "" THEN rc.style ELSE upd.style,
     fontsize |-> IF upd.fontsize = 0 THEN rc.fontsize ELSE upd.fontsize,
     weight |-> IF upd.weight = "" THEN rc.weight ELSE upd.weight]

\* A write that keeps the contents of a file that already exists.
WriteFileKeep(files, p, c) == files @@ (p :> c)

\* savefig opens the file for writing: the new image replaces what was there.
WriteFile(files, p, c) == (p :> c) @@ files

\* The image of a figure.
Image(fig, dpi) == [rc |-> fig.rc, axes |-> fig.axes, dpi |-> dpi]

\* ------------------------------------------------- statements of a run
\* Each operator maps the state of the process before a statement to its
\* state after it.  Only savefig touches anything outside the process.

\* plt.style.use / plt.rcParams
DoRc(run, stmt) == Advance([run EXCEPT !.rc = ApplyRc(run.rc, stmt.rc)])

\* plt.figure() / plt.subplots(): a new, empty current figure.
DoFigure(run) ==
    Advance([run EXCEPT !.fig = [open |-> TRUE, rc |-> run.rc, axes |-> << >>],
                        !.nopen = run.nopen + 1])

\* The statements of one chart, from its bar call to its axis limits.
DoPanel(run, stmt) ==
    LET e == PanelRaises(stmt.spec)
    IN  IF e # "" THEN Raise(run, e)
        ELSE Advance([run EXCEPT
                        !.fig.axes = Append(run.fig.axes, DrawAxes(stmt.spec)),
                        !.width = WidthAfter(stmt.spec, run.width)])

\* ax2 = plt.subplot(2, 3, 2); width = 0.35; bottom_* = np.zeros(1)
DoStackBegin(run) ==
    Advance([run EXCEPT
               !.fig.axes = Append(run.fig.axes,
                              [kind |-> "stacked",
                               title |-> "Branch Complexity (15x fewer!)",
                               calls |-> << >>, bars |-> << >>, texts |-> << >>,
                               lim |-> 0, ticks |-> << >>]),
               !.width = branch_width, !.i = 0,
               !.bottom_manual = 0, !.bottom_reflection = 0])

\* The two segments drawn by iteration i (0-based) of the stacking loop:
\* ax2.bar(0, manual_val, width*2, bottom=bottom_manual, color=color) and
\* ax2.bar(1, reflection_val, width*2, bottom=bottom_reflection, color=color)
StackSegments(i, color, label, bm, br, width) ==
    << [label |-> label, value |-> branch_data_Manual.types[i + 1],
        bottom |-> bm, extent |-> bm + branch_data_Manual.types[i + 1],
        color |-> color, edge |-> "black", lw |-> 1,
        x2 |-> ManualColumn, w |-> 2 * width, call |-> 2 * i + 1],
       [label |-> "", value |-> branch_data_Reflection.types[i + 1],
        bottom |-> br, extent |-> br + branch_data_Reflection.types[i + 1],
        color |-> color, edge |-> "black", lw |-> 1,
        x2 |-> ReflectionColumn, w |-> 2 * width, call |-> 2 * i + 2] >>

\* One running bottom shared by the two columns.
BottomsShared(i, bm, br) ==
    [manual |-> bm + branch_data_Manual.types[i + 1],
     reflection |-> bm + branch_data_Manual.types[i + 1]]

\* bottom_manual += manual_val; bottom_reflection += reflection_val
BottomsAfter(i, bm, br) ==
    [manual |-> bm + branch_data_Manual.types[i + 1],
     reflection |-> br + branch_data_Reflection.types[i + 1]]

\* One iteration of
\*   for i, (label, color) in enumerate(zip(labels, branch_colors)):
\* types[i] raises IndexError past the end of a 'types' list; the loop ends
\* with the shorter of labels and branch_colors.
DoStackIter(run) ==
    LET n == Min2(Len(branch_labels), Len(branch_colors))
        i == run.i
        ax == Len(run.fig.axes)
    IN  IF i + 1 > Len(branch_data_Manual.types)
           \/ i + 1 > Len(branch_data_Reflection.types)
        THEN Raise(run, "IndexError")
        ELSE LET b == BottomsAfter(i, run.bottom_manual, run.bottom_reflection)
                 drawn == [run EXCEPT
                    !.fig.axes[ax].bars =
                        @ \o StackSegments(i, branch_colors[i + 1], branch_labels[i + 1],
                                           run.bottom_manual, run.bottom_reflection,
                                           run.width),
                    !.fig.axes[ax].calls =
                        @ \o << CallArgs(<<ManualColumn>>, <<branch_data_Manual.types[i + 1]>>,
                                         <<branch_colors[i + 1]>>, TRUE,
                                         Len(branch_data_Manual.types)),
                                CallArgs(<<ReflectionColumn>>,
                                         <<branch_data_Reflection.types[i + 1]>>,
                                         <<branch_colors[i + 1]>>, TRUE,
                                         Len(branch_data_Reflection.types)) >>,
                    !.bottom_manual = b.manual,
                    !.bottom_reflection = b.reflection,
                    !.i = i + 1]
             IN  IF i + 1 >= n THEN Advance(drawn) ELSE drawn

\* set_xticks, set_xticklabels, legend, set_ylim(0, 350)
DoStackEnd(run) ==
    LET ax == Len(run.fig.axes)
    IN  Advance([run EXCEPT !.fig.axes[ax].ticks = branch_xticklabels,
                            !.fig.axes[ax].lim = branch_lim])

\* plt.close() closes the current figure.
DoClose(run) == Advance([run EXCEPT !.fig = NoFigure, !.nopen = run.nopen - 1])

\* print("... generated successfully!")
DoPrint(run) == Advance([run EXCEPT !.printed = TRUE])

\* The number of the chart whose savefig the run is at.
ChartAt(run) == SavesUpTo(Program(run.script), run.pc)

\* plt.savefig returned: the file is written.
DoSavefig(run) ==
    Advance([run EXCEPT !.attempts = Append(@, ChartAt(run)),
                        !.written = Append(@, ChartAt(run))])

\* plt.savefig raised (the path cannot be written).
DoSavefigFails(run) ==
    Raise([run EXCEPT !.attempts = Append(@, ChartAt(run))], "IOFailure")

\* The record of a completed savefig: what was rendered, and the file left.
SaveRecord(r, run, files) ==
    LET p == Resolve(run.cwd, Program(run.script)[run.pc].path)
    IN  [run |-> r, script |-> run.script, cwd |-> run.cwd, chart |-> ChartAt(run),
         path |-> p, image |-> Image(run.fig, Program(run.script)[run.pc].dpi),
         file |-> files[p]]

FilesAfterSave(run, files) ==
    WriteFile(files, Resolve(run.cwd, Program(run.script)[run.pc].path),
              Image(run.fig, Program(run.script)[run.pc].dpi))

\* ------------------------------------------- actions, one per statement
\* python3 <script> is started in directory d.  Runs are numbered in the
\* order they are started.
Start(r) ==
    /\ runs[r].status = "idle"
    /\ IF r = 1 THEN TRUE ELSE runs[r - 1].status \in {"done", "failed"}
    /\ \E s \in Scripts, d \in Dirs :
           runs' = [runs EXCEPT ![r] = NewProcess(s, d)]
    /\ UNCHANGED <<fs, saved>>

RcSetup(r) ==
    /\ AtOp(r, "rc")
    /\ runs' = [runs EXCEPT ![r] = DoRc(runs[r], Stmt(r))]
    /\ UNCHANGED <<fs, saved>>

Figure(r) ==
    /\ AtOp(r, "figure")
    /\ runs' = [runs EXCEPT ![r] = DoFigure(runs[r])]
    /\ UNCHANGED <<fs, saved>>

Panel(r) ==
    /\ AtOp(r, "panel")
    /\ runs' = [runs EXCEPT ![r] = DoPanel(runs[r], Stmt(r))]
    /\ UNCHANGED <<fs, saved>>

StackBegin(r) ==
    /\ AtOp(r, "stack_begin")
    /\ runs' = [runs EXCEPT ![r] = DoStackBegin(runs[r])]
    /\ UNCHANGED <<fs, saved>>

StackIter(r) ==
    /\ AtOp(r, "stack_iter")
    /\ runs' = [runs EXCEPT ![r] = DoStackIter(runs[r])]
    /\ UNCHANGED <<fs, saved>>

StackEnd(r) ==
    /\ AtOp(r, "stack_end")
    /\ runs' = [runs EXCEPT ![r] = DoStackEnd(runs[r])]
    /\ UNCHANGED <<fs, saved>>

\* plt.savefig(path, dpi=...) writes the image of the current figure.
Savefig(r) ==
    /\ AtOp(r, "savefig")
    /\ fs' = FilesAfterSave(runs[r], fs)
    /\ saved' = saved \cup {SaveRecord(r, runs[r], fs')}
    /\ runs' = [runs EXCEPT ![r] = DoSavefig(runs[r])]

\* plt.savefig raises: nothing is written.
SavefigFails(r) ==
    /\ AtOp(r, "savefig")
    /\ runs' = [runs EXCEPT ![r] = DoSavefigFails(runs[r])]
    /\ UNCHANGED <<fs, saved>>

Close(r) ==
    /\ AtOp(r, "close")
    /\ runs' = [runs EXCEPT ![r] = DoClose(runs[r])]
    /\ UNCHANGED <<fs, saved>>

PrintDone(r) ==
    /\ AtOp(r, "print")
    /\ runs' = [runs EXCEPT ![r] = DoPrint(runs[r])]
    /\ UNCHANGED <<fs, saved>>

\* Scripts run one after another, statement by statement.
Next ==
    \E r \in Runs :
        \/ Start(r)
        \/ RcSetup(r)
        \/ Figure(r)
        \/ Panel(r)
        \/ StackBegin(r)
        \/ StackIter(r)
        \/ StackEnd(r)
        \/ Savefig(r)
        \/ SavefigFails(r)
        \/ Close(r)
        \/ PrintDone(r)

Spec == Init /\ [][Next]_vars

\* ------------------------------------------------- runs in parallel
\* The statements between two savefig calls touch only the process's own
\* memory, so for what the runs do to the file system it is enough to
\* interleave them at their savefig calls.

\* The statement at the run's pc, which is not a savefig.
Private(run) ==
    LET stmt == Program(run.script)[run.pc]
    IN  CASE stmt.op = "rc" -> DoRc(run, stmt)
          [] stmt.op = "figure" -> DoFigure(run)
          [] stmt.op = "panel" -> DoPanel(run, stmt)
          [] stmt.op = "stack_begin" -> DoStackBegin(run)
          [] stmt.op = "stack_iter" -> DoStackIter(run)
          [] stmt.op = "stack_end" -> DoStackEnd(run)
          [] stmt.op = "close" -> DoClose(run)
          [] OTHER -> DoPrint(run)

\* The run continues up to its next savefig call, or to its exit.
RECURSIVE Settle(_)
Settle(run) ==
    IF run.status # "running" \/ Program(run.script)[run.pc].op = "savefig"
    THEN run
    ELSE Settle(Private(run))

Launch(r) ==
    /\ runs[r].status = "idle"
    /\ IF r = 1 THEN TRUE ELSE runs[r - 1].status # "idle"
    /\ \E s \in Scripts, d \in Dirs :
           runs' = [runs EXCEPT ![r] = Settle(NewProcess(s, d))]
    /\ UNCHANGED <<fs, saved>>

SaveAndGo(r) ==
    /\ AtOp(r, "savefig")
    /\ fs' = FilesAfterSave(runs[r], fs)
    /\ saved' = saved \cup {SaveRecord(r, runs[r], fs')}
    /\ runs' = [runs EXCEPT ![r] = Settle(DoSavefig(runs[r]))]

SaveFails(r) ==
    /\ AtOp(r, "savefig")
    /\ runs' = [runs EXCEPT ![r] = DoSavefigFails(runs[r])]
    /\ UNCHANGED <<fs, saved>>

NextPar == \E r \in Runs : Launch(r) \/ SaveAndGo(r) \/ SaveFails(r)

SpecPar == Init /\ [][NextPar]_vars

\* =================================================================
\* Properties
\* =================================================================
Range(f) == {f[k] : k \in DOMAIN f}

\* The charts (axes) drawn so far by runs of a script: those of its open
\* figures and those of the images it has saved.
ChartsOf(script) ==
    UNION {Range(runs[r].fig.axes) : r \in {q \in Runs : runs[q].script = script}}
    \cup UNION {Range(a.image.axes) : a \in {b \in saved : b.script = script}}

Charts == UNION {ChartsOf(s) : s \in Scripts}

\* A stacked chart whose loop has not yet ended has no limit set.
Finished(ax) == ax.kind # "stacked" \/ ax.lim > 0

ValueTexts(ax, k) == {j \in DOMAIN ax.texts : ax.texts[j].bar = k
                                               /\ ax.texts[j].kind = "value"}

\* ------------------------------------------------------------------ C1
\* C1: in every bar call of every script the x (label) array, the height
\* (value) array and the colour array have the same length (a scalar colour
\* serves every bar), every array the labelling loop indexes by bar position
\* is at least that long, so no run dies of an IndexError or a shape
\* mismatch, no zip loop drops a bar, and the stacking loop draws a segment
\* for every branch label.
C1_ArgumentLengthsAgree ==
    /\ \A ax \in Charts : \A c \in Range(ax.calls) :
          /\ Len(c.x) = Len(c.height)
          /\ c.scalar \/ Len(c.colors) = Len(c.height)
          /\ c.nindexed >= Len(c.height)
    /\ \A r \in Runs : runs[r].err \notin {"IndexError", "ValueError"}
    /\ \A ax \in Charts :
          ax.kind = "simple" => \A k \in DOMAIN ax.bars : ValueTexts(ax, k) # {}
    /\ \A ax \in Charts :
          ax.kind = "stacked" =>
             /\ \A c \in Range(ax.calls) : 2 * c.nindexed >= Len(ax.calls)
             /\ Finished(ax) => Len(ax.bars) = 2 * Len(branch_labels)

\* The three charts of generate_perf_charts.py, with their lang_labels
\* loops, and the stacked chart have been drawn and saved.
C1_Witness ==
    /\ \E a \in saved : a.script = "generate_perf_charts" /\ a.chart = 3
    /\ \E a \in saved : a.script = "generate_bonus_charts" /\ a.chart = 1

\* ------------------------------------------------------------------ C3
Triples(ax) == {<<ax.bars[k].label, ax.bars[k].value, ax.bars[k].color>> :
                   k \in DOMAIN ax.bars}

NonIncreasing(ax) ==
    \A k \in DOMAIN ax.bars :
        k > 1 => ax.bars[k - 1].value >= ax.bars[k].value

\* Bar k of the chart is entry k of the arguments of its bar call.
InputOrder(ax) ==
    LET c == ax.calls[1]
    IN  /\ Len(ax.bars) = Len(c.height)
        /\ \A k \in DOMAIN ax.bars :
              /\ ax.bars[k].label = c.x[k]
              /\ ax.bars[k].value = c.height[k]
              /\ ax.bars[k].color = c.colors[k]

GcChart(n) == {a.image.axes[1] : a \in {b \in saved : b.script = "generate_charts"
                                                        /\ b.chart = n}}

\* C3: the bars of the chart 'sorted by performance' (generate_charts.py,
\* chart 3) are non-increasing in value in bar order and are a reordering
\* of the (label, value, colour) triples of the reveal chart (chart 2); in
\* every chart with one bar call, bar k is entry k of the call's arguments.
C3_BarOrder ==
    /\ \A ax \in GcChart(3) :
          /\ NonIncreasing(ax)
          /\ \A bx \in GcChart(2) :
                /\ Triples(ax) = Triples(bx)
                /\ Len(ax.bars) = Len(bx.bars)
                /\ Cardinality(Triples(bx)) = Len(bx.bars)
    /\ \A ax \in Charts : ax.kind \in {"simple", "pie"} => InputOrder(ax)

\* One run of generate_charts.py has saved the reveal chart and the sorted
\* chart.
C3_Witness ==
    \E a, b \in saved : /\ a.script = "generate_charts" /\ a.chart = 2
                        /\ b.script = "generate_charts" /\ b.chart = 3
                        /\ a.run = b.run

\* ------------------------------------------------------------------ C4
Highlighted(ax) == {k \in DOMAIN ax.bars : ax.bars[k].lw = 3}
Simdjson(ax) == {k \in DOMAIN ax.bars : ax.bars[k].label = "simdjson"}
Starred(ax) == {ax.texts[j].bar : j \in {i \in DOMAIN ax.texts : ax.texts[i].starred}}

\* C4: in every chart the bars with the highlighted border (line width 3
\* and an edge colour no other bar of the chart has) are exactly the bars
\* labelled 'simdjson', there is at most one of them, and it is the bar
\* whose value label takes the highlighted-label branch; so a chart without
\* a 'simdjson' entry has no highlighted bar.
C4_HighlightIsSimdjson ==
    \A ax \in Charts :
        /\ Highlighted(ax) = Simdjson(ax)
        /\ Starred(ax) = Simdjson(ax)
        /\ Cardinality(Simdjson(ax)) <= 1
        /\ \A k \in Highlighted(ax) : \A j \in DOMAIN ax.bars :
              j # k => ax.bars[j].edge # ax.bars[k].edge

\* The sorted chart, whose simdjson entry is the first bar, has been saved
\* with that bar highlighted.
C4_Witness ==
    \E a \in saved : /\ a.script = "generate_charts" /\ a.chart = 3
                     /\ Highlighted(a.image.axes[1]) = {1}

\* ------------------------------------------------------------------ C5
Abs(x) == IF x < 0 THEN -x ELSE x

Entries(ax) == SumTo([j \in DOMAIN ax.calls |-> Len(ax.calls[j].height)],
                     Len(ax.calls))

LabelsOf(ax, k) == ValueTexts(ax, k)

Beyond(ax, k, j) == ax.texts[j].anchor > ax.bars[k].extent

\* v shown with two significant digits (1.00 <= v < 100), rounded to nearest.
TwoDigitsOf(num, v) ==
    LET u == IF v >= 1000 THEN 100 ELSE 10
    IN  num % u = 0 /\ 2 * Abs(num - v) <= u

\* The label's number is the value, exactly or as the '.2g' format shows it.
ShowsValue(ax, k, j) ==
    \/ ax.texts[j].num = ax.bars[k].value
    \/ TwoDigitsOf(ax.texts[j].num, ax.bars[k].value)

\* C5 as claimed: every chart has one bar (or slice) per series entry, and
\* every bar or slice, those of value 0 and the segments of the stacked
\* chart included, has exactly one value label, which shows the entry's own
\* value and is anchored strictly beyond the bar's extent.
C5_EveryEntryLabelledWithItsValue ==
    \A ax \in Charts :
        (Finished(ax) /\ ax.kind # "benefits") =>
           /\ Len(ax.bars) = Entries(ax)
           /\ \A k \in DOMAIN ax.bars :
                 /\ Cardinality(LabelsOf(ax, k)) = 1
                 /\ \A j \in LabelsOf(ax, k) :
                       ShowsValue(ax, k, j) /\ Beyond(ax, k, j)

\* C5 as amended: every chart has one bar (or slice) per series entry.  In
\* the charts with one bar call every bar has exactly one value label,
\* anchored strictly beyond the bar's extent, whose number is the entry's
\* value (in barsimdjson.py: the value rounded to two significant digits).
\* In the grouped charts a bar has that label if and only if its value is
\* greater than 0.  The stacked branch chart has no value labels.  A pie
\* slice has one label outside the slice, whose text names the entry's
\* value, and its share in percent.
C5_LabelsAsDrawn ==
    /\ \A ax \in Charts :
          (Finished(ax) /\ ax.kind # "benefits") => Len(ax.bars) = Entries(ax)
    /\ \A s \in Scripts : \A ax \in ChartsOf(s) :
          ax.kind = "simple" =>
             \A k \in DOMAIN ax.bars :
                /\ Cardinality(LabelsOf(ax, k)) = 1
                /\ \A j \in LabelsOf(ax, k) :
                      /\ Beyond(ax, k, j)
                      /\ IF s = "barsimdjson"
                         THEN TwoDigitsOf(ax.texts[j].num, ax.bars[k].value)
                         ELSE ax.texts[j].num = ax.bars[k].value
    /\ \A ax \in Charts :
          ax.kind = "grouped" =>
             \A k \in DOMAIN ax.bars :
                /\ Cardinality(LabelsOf(ax, k)) = (IF ax.bars[k].value > 0 THEN 1 ELSE 0)
                /\ \A j \in LabelsOf(ax, k) :
                      ax.texts[j].num = ax.bars[k].value /\ Beyond(ax, k, j)
    /\ \A ax \in Charts : ax.kind = "stacked" => ax.texts = << >>
    /\ \A ax \in Charts :
          ax.kind = "pie" =>
             LET total == SumTo([k \in DOMAIN ax.bars |-> ax.bars[k].value],
                                Len(ax.bars))
             IN  \A k \in DOMAIN ax.bars :
                    /\ Cardinality(LabelsOf(ax, k)) = 1
                    /\ \A j \in LabelsOf(ax, k) :
                          ax.texts[j].num = ax.bars[k].value /\ Beyond(ax, k, j)
                    /\ \E j \in DOMAIN ax.texts :
                          /\ ax.texts[j].bar = k /\ ax.texts[j].kind = "pct"
                          /\ 2 * Abs(ax.texts[j].num * total
                                     - N(100) * ax.bars[k].value) <= N(1) * total

\* Both figures of generate_bonus_charts.py (grouped charts with bars of
\* value 0, the stacked chart, the pie) and the chart of barsimdjson.py
\* have been saved.
C5_Witness ==
    /\ \E a \in saved : a.script = "generate_bonus_charts" /\ a.chart = 2
    /\ \E a \in saved : a.script = "barsimdjson"

\* ------------------------------------------------------------------ C6
\* C6 as claimed: the output paths of different scripts are disjoint: no
\* file is written by runs of two different scripts.
C6_OutputPathsDisjoint ==
    \A a, b \in saved : a.script # b.script => a.path # b.path

SharedNames == {"perf_landscape.png", "perf_with_simdjson.png"}

Writers(p) == {a \in saved : a.path = p}

\* C6 as amended: two different scripts write the same file only in one
\* case: generate_charts.py and generate_perf_charts.py, the latter started
\* in the images directory, both write perf_landscape.png and
\* perf_with_simdjson.png there.  Every file holds the image saved by one of
\* the runs that wrote it; a file written by runs of one script only holds
\* that script's image, whatever the interleaving.
C6_OnlyPerfChartsShared ==
    /\ \A a, b \in saved :
          (a.script # b.script /\ a.path = b.path) =>
             /\ {a.script, b.script} = {"generate_charts", "generate_perf_charts"}
             /\ a.path.dir = ImagesDir
             /\ a.path.name \in SharedNames
             /\ \A c \in {a, b} : c.script = "generate_perf_charts" => c.cwd = ImagesDir
    /\ \A p \in DOMAIN fs :
          /\ \E a \in Writers(p) : fs[p] = a.image
          /\ \A a \in Writers(p) :
                (\A b \in Writers(p) : b.script = a.script) => fs[p] = a.image

\* Two runs of different scripts are under way at the same time and each
\* has already written a file.
C6_Witness ==
    \E q, r \in Runs :
        /\ q # r /\ Running(q) /\ Running(r)
        /\ runs[q].script # runs[r].script
        /\ Len(runs[q].written) >= 1 /\ Len(runs[r].written) >= 1

\* ------------------------------------------------------------------ C7
OneToN(seq) == \A k \in DOMAIN seq : seq[k] = k

\* C7: a run has at most one figure open; it attempts its savefig calls in
\* chart order, each at most once; a run that failed has exit code 1, has
\* written exactly the charts before the failing one and has not printed
\* the final message; a run that printed it, or ended with exit code 0, has
\* written every chart of its script.
C7_FailureEndsRun ==
    \A r \in Runs :
        LET run == runs[r]
        IN  run.status # "idle" =>
              /\ run.nopen \in {0, 1} /\ (run.nopen = 1 <=> run.fig.open)
              /\ OneToN(run.attempts) /\ OneToN(run.written)
              /\ Len(run.attempts) <= NCharts(run.script)
              /\ run.status = "running" =>
                    run.written = run.attempts /\ run.exit = -1
              /\ run.status = "failed" =>
                    /\ run.exit = 1 /\ ~run.printed
                    /\ Len(run.written) = Len(run.attempts) - 1
              /\ run.status = "done" =>
                    run.exit = 0 /\ Len(run.written) = NCharts(run.script)
              /\ run.printed => Len(run.written) = NCharts(run.script)
              /\ \A k \in DOMAIN run.written :
                    \E a \in saved : a.run = r /\ a.chart = k

\* A run has failed at the savefig of its second chart, after writing the
\* first.
C7_Witness ==
    \E r \in Runs : /\ runs[r].status = "failed" /\ runs[r].err = "IOFailure"
                    /\ runs[r].attempts = <<1, 2>> /\ runs[r].written = <<1>>

\* ------------------------------------------------------------------ C8
RunPaths(r) == {a.path : a \in {b \in saved : b.run = r}}

RECURSIVE ColumnBelow(_, _, _)
\* The sum of the values of the segments of column x among the first n bars.
ColumnBelow(bars, x, n) ==
    IF n = 0 THEN 0
    ELSE ColumnBelow(bars, x, n - 1)
         + (IF bars[n].x2 = x THEN bars[n].value ELSE 0)

StackedOf(axes) == {a \in DOMAIN axes : axes[a].kind = "stacked"}

\* The segments of a stacked chart stack without overlap or gap: iteration i
\* draws type i of each column, on a bottom equal to the sum of the earlier
\* segments of the same column.
Stacks(ax) ==
    \A k \in DOMAIN ax.bars :
        /\ ax.bars[k].x2 = (IF k % 2 = 1 THEN ManualColumn ELSE ReflectionColumn)
        /\ ax.bars[k].value =
              (IF k % 2 = 1 THEN branch_data_Manual.types[(k + 1) \div 2]
                            ELSE branch_data_Reflection.types[k \div 2])
        /\ ax.bars[k].bottom = ColumnBelow(ax.bars, ax.bars[k].x2, k - 1)
        /\ ax.bars[k].extent = ColumnBelow(ax.bars, ax.bars[k].x2, k)

\* C9: in the stacked 'Branch Complexity' chart every segment is drawn on a
\* bottom equal to the sum of the earlier values of its own column, the
\* running bottoms of the Manual and the Reflection column are kept apart
\* (each is the height of its own column so far), and once the loop has
\* ended each column's height is the total declared for it and shown in its
\* tick label: 311 for Manual, 20 for Reflection.
C9_StackingBottoms ==
    /\ \A ax \in Charts : ax.kind = "stacked" =>
          /\ Stacks(ax)
          /\ Finished(ax) =>
                /\ Len(ax.bars) = 2 * Len(branch_labels)
                /\ ColumnBelow(ax.bars, ManualColumn, Len(ax.bars))
                      = branch_data_Manual.total
                /\ ColumnBelow(ax.bars, ReflectionColumn, Len(ax.bars))
                      = branch_data_Reflection.total
                /\ ax.ticks[1].shown = branch_data_Manual.total
                /\ ax.ticks[2].shown = branch_data_Reflection.total
                /\ ax.ticks[1].shown = N(311) /\ ax.ticks[2].shown = N(20)
    /\ \A r \in Runs : \A a \in StackedOf(runs[r].fig.axes) :
          LET ax == runs[r].fig.axes[a]
          IN  /\ Len(ax.bars) = 2 * runs[r].i
              /\ runs[r].bottom_manual
                    = ColumnBelow(ax.bars, ManualColumn, Len(ax.bars))
              /\ runs[r].bottom_reflection
                    = ColumnBelow(ax.bars, ReflectionColumn, Len(ax.bars))

\* A run has ended the stacking loop after its four iterations, with both
\* running bottoms above 0 and different, and has set the tick labels.
C9_Witness ==
    \E r \in Runs : \E a \in StackedOf(runs[r].fig.axes) :
        /\ runs[r].i = 4
        /\ Len(runs[r].fig.axes[a].bars) = 8
        /\ Finished(runs[r].fig.axes[a])
        /\ runs[r].bottom_manual > runs[r].bottom_reflection
        /\ runs[r].bottom_reflection > 0

\* ----------------------------------------------------------------- C10
\* The texts placed relative to a bar.
BarTexts(ax) == {j \in DOMAIN ax.texts : ax.texts[j].kind \in {"value", "lang"}}

StrictlyInside(x, lim) == 0 < x /\ x < lim

\* C10 as claimed: in every chart with an explicit value-axis limit each
\* bar's value, the top of each stacked segment and the anchor of each text
\* placed relative to a bar lie strictly inside the range from 0 to the
\* limit.
C10_StrictlyInsideLimits ==
    \A ax \in Charts : ax.lim > 0 =>
        /\ \A k \in DOMAIN ax.bars :
              /\ StrictlyInside(ax.bars[k].value, ax.lim)
              /\ StrictlyInside(ax.bars[k].extent, ax.lim)
        /\ \A j \in BarTexts(ax) : StrictlyInside(ax.texts[j].anchor, ax.lim)

\* C10: in every chart with an explicit value-axis limit each bar starts at
\* 0 or above and ends strictly below the limit, its value being 0 only for
\* the zero entries of the two grouped charts, which carry no text; every
\* bar of the other charts has a value strictly between 0 and the limit; and
\* the anchor of each text placed relative to a bar lies strictly between 0
\* and the limit.
C10_WithinLimits ==
    \A ax \in Charts : ax.lim > 0 =>
        /\ \A k \in DOMAIN ax.bars :
              /\ 0 <= ax.bars[k].bottom
              /\ 0 <= ax.bars[k].value
              /\ ax.bars[k].value < ax.lim
              /\ ax.bars[k].extent < ax.lim
              /\ ax.bars[k].value = 0 =>
                    ax.kind = "grouped" /\ ValueTexts(ax, k) = {}
        /\ \A j \in BarTexts(ax) : StrictlyInside(ax.texts[j].anchor, ax.lim)

\* The first figure of generate_bonus_charts.py has been saved: it holds a
\* grouped chart with a limit and a bar of value 0, the stacked chart with
\* its limit, and a chart with a text placed relative to a bar.
C10_Witness ==
    \E a \in saved :
        /\ \E n \in DOMAIN a.image.axes :
              LET ax == a.image.axes[n]
              IN  ax.kind = "grouped" /\ ax.lim > 0
                  /\ \E k \in DOMAIN ax.bars : ax.bars[k].value = 0
        /\ \E n \in DOMAIN a.image.axes :
              a.image.axes[n].kind = "stacked" /\ a.image.axes[n].lim > 0
        /\ \E n \in DOMAIN a.image.axes :
              LET ax == a.image.axes[n]
              IN  ax.lim > 0 /\ BarTexts(ax) # {}

=============================================================================
